---- MODULE Spec2Model ----
(***************************************************************************)
(* A model of AppEventWatcher (app-event-watcher.ts): the dev-session      *)
(* orchestrator that clears the bundle directory, builds every extension   *)
(* once, subscribes to the file watcher and then, for every reconciled      *)
(* AppEvent, updates the esbuild contexts, rebuilds the created/updated     *)
(* extensions, removes the output of the deleted ones and emits 'all'.      *)
(*                                                                         *)
(* Every await of the source is a step boundary: the code between two       *)
(* awaits runs atomically on the single JavaScript thread, and the          *)
(* completion of every awaited operation is a separate step, so that        *)
(* several start() calls and several batches interleave as they can.        *)
(***************************************************************************)
EXTENDS Integers, Sequences, FiniteSets, TLC

\* ------------------------------------------------------------------ bounds
MaxStarts == 2
MaxBatches == 2
MaxStartListeners == 2
MaxEventListeners == 2
MaxErrs == 2

\* --------------------------------------------------------------- universe
\* The extension handles of the session, in the order of app.realExtensions.
HandleOrder == <<"a", "b", "c">>
Handles == {HandleOrder[i] : i \in 1..Len(HandleOrder)}
\* ext.isESBuildExtension: a static property of the extension.
IsESBuildExtension(h) == h = "a"
\* The application the watcher is constructed with.
InitialApp == {"a", "b"}
\* Texts of esbuild's structured errors, and the message of a thrown Error.
ErrTexts == {"e1", "e2"}
ThrownMessages == {"boom"}

\* EventType
Updated == "changed"
Deleted == "deleted"
Created == "created"

VARIABLES
  started,      \* private started
  ready,        \* private ready
  app,          \* private app: the handles of app.realExtensions
  contexts,     \* esbuildManager.contexts: the handles that have a context
  outExists,    \* whether buildOutputPath exists on disk
  store,        \* the handles that have output under buildOutputPath
  watchers,     \* how many batch handlers startFileWatcher has registered
  call,         \* call[i]: where the i-th start() call is
  initBuild,    \* initBuild[i]: the buildExtensions job of the i-th start()
  steps,        \* how many times each step of start() was performed
  readyCalls,   \* per onStart registration: how often it was invoked
  evRecv,       \* per onEvent registration: the AppEvents it received
  batch,        \* batch[b]: the b-th delivery of the file watcher
  stderr        \* what was written to options.stderr

vars == <<started, ready, app, contexts, outExists, store, watchers, call,
          initBuild, steps, readyCalls, evRecv, batch, stderr>>

\* ---------------------------------------------------------------- helpers
Range(s) == {s[i] : i \in 1..Len(s)}

\* The extensions of a snapshot as an array (app.realExtensions).
RealExtensions(snapshot) == SelectSeq(HandleOrder, LAMBDA h : h \in snapshot)

RECURSIVE Join(_, _)
\* Array.prototype.join: the texts separated by sep ("" for no text).
Join(texts, sep) ==
  IF Len(texts) = 0 THEN ""
  ELSE IF Len(texts) = 1 THEN texts[1]
  ELSE texts[1] \o sep \o Join(Tail(texts), sep)

\* Arrays of at most n elements of S.
SeqsUpTo(S, n) == UNION {[1..k -> S] : k \in 0..n}

\* What the awaited backend of one extension's build can answer: a context's
\* rebuild() resolves with its errors; buildForBundle resolves or throws.
RebuildOutcomes == {[kind |-> "result", errors |-> e] : e \in SeqsUpTo(ErrTexts, MaxErrs)}
BundleOutcomes == {[kind |-> "ok"]} \cup {[kind |-> "throw", message |-> m] : m \in ThrownMessages}

Pending == [state |-> "pending"]
Fulfilled(v) == [state |-> "fulfilled", value |-> v]
Rejected(m) == [state |-> "rejected", reason |-> m]

\* Promise.all over settled/pending promises: rejected as soon as one input is,
\* fulfilled when all are, pending otherwise.
PromiseAll_PendingOnEmpty(ps) ==
  IF Len(ps) = 0 THEN "pending"
  ELSE IF \E k \in 1..Len(ps) : ps[k].state = "rejected" THEN "rejected"
  ELSE IF \A k \in 1..Len(ps) : ps[k].state = "fulfilled" THEN "fulfilled"
  ELSE "pending"

PromiseAll(ps) ==
  IF \E k \in 1..Len(ps) : ps[k].state = "rejected" THEN "rejected"
  ELSE IF \A k \in 1..Len(ps) : ps[k].state = "fulfilled" THEN "fulfilled"
  ELSE "pending"

\* The reason Promise.all rejects with: that of its first rejected input (the
\* rejections of one job all carry a message of ThrownMessages).
FirstReason(ps) ==
  LET k == CHOOSE j \in 1..Len(ps) : ps[j].state = "rejected" /\
                 \A i \in 1..(j - 1) : ps[i].state /= "rejected"
  IN ps[k].reason

\* -------------------------------------------------------- buildExtensions
\* The async closure buildExtensions maps over its input (one per extension):
\* the promise it returns once the awaited backend has answered `outcome`.
BuildOne_Rethrow(h, hasCtx, outcome) ==
  IF hasCtx
    THEN IF Len(outcome.errors) > 0
           THEN Rejected(Join(outcome.errors, "\n"))
           ELSE Fulfilled([status |-> "ok", handle |-> h])
    ELSE IF outcome.kind = "throw"
           THEN Rejected(outcome.message)
           ELSE Fulfilled([status |-> "ok", handle |-> h])

BuildOne(h, hasCtx, outcome) ==
  IF hasCtx
    THEN IF Len(outcome.errors) > 0
           THEN Fulfilled([status |-> "error", error |-> Join(outcome.errors, "\n"), handle |-> h])
           ELSE Fulfilled([status |-> "ok", handle |-> h])
    ELSE IF outcome.kind = "throw"
           THEN Fulfilled([status |-> "error", error |-> outcome.message, handle |-> h])
           ELSE Fulfilled([status |-> "ok", handle |-> h])

NoJob == [exts |-> <<>>, hasCtx |-> <<>>, outcome |-> <<>>, promise |-> <<>>]

\* buildExtensions(extensions) up to its first await: one closure per input
\* extension is started, each looks up its esbuild context at once.
BuildExtensionsStart(exts, ctxs) ==
  [exts    |-> exts,
   hasCtx  |-> [k \in 1..Len(exts) |-> exts[k] \in ctxs],
   outcome |-> [k \in 1..Len(exts) |-> [kind |-> "none"]],
   promise |-> [k \in 1..Len(exts) |-> Pending]]

\* The answers the backend of the k-th extension of a job can give.
OutcomesOf(job, k) == IF job.hasCtx[k] THEN RebuildOutcomes ELSE BundleOutcomes

\* The k-th closure of a job resumes with the backend's answer.
BuildTaskDone(job, k, outcome) ==
  [job EXCEPT !.outcome[k] = outcome,
              !.promise[k] = BuildOne(job.exts[k], job.hasCtx[k], outcome)]

\* A backend that answers without error has written the extension's output.
OutcomeOk(outcome) ==
  \/ outcome.kind = "ok"
  \/ outcome.kind = "result" /\ Len(outcome.errors) = 0

StoreAfterBuild(st, h, outcome) == IF OutcomeOk(outcome) THEN st \cup {h} ELSE st

\* The ExtensionBuildResult[] a job's Promise.all resolves with.
BuildResults(job) == [k \in 1..Len(job.exts) |-> job.promise[k].value]

\* ------------------------------------------------------------------ emit
\* EventEmitter.emit('ready'): every registered 'ready' listener is invoked.
EmitReady(calls) == [k \in 1..Len(calls) |-> calls[k] + 1]

\* EventEmitter.emit('all', appEvent): every registered 'all' listener gets it.
EmitAll(recv, appEvent) == [k \in 1..Len(recv) |-> Append(recv[k], appEvent)]

\* ------------------------------------------------------------------ Init
StepNames == {"fileExists", "rmdir", "mkdir", "createContexts", "buildExtensions", "startFileWatcher"}

NoBatch ==
  [stage |-> "none", events |-> [disk |-> {}, touched |-> {}], oldApp |-> {},
   replaced |-> {},
   appEvent |-> [id |-> 0, app |-> {}, extensionEvents |-> <<>>],
   build |-> NoJob, purge |-> [exts |-> <<>>, promise |-> <<>>]]

\* The state the constructor leaves, for an application among `apps`; the
\* output directory may be there, with the output of an earlier session.
InitOver(apps) ==
  /\ started = FALSE
  /\ ready = FALSE
  /\ app \in apps
  /\ contexts = {}
  /\ outExists \in BOOLEAN
  /\ store = IF outExists THEN Handles ELSE {}
  /\ watchers = 0
  /\ call = [i \in 1..MaxStarts |-> "idle"]
  /\ initBuild = [i \in 1..MaxStarts |-> NoJob]
  /\ steps = [s \in StepNames |-> 0]
  /\ readyCalls = <<>>
  /\ evRecv = <<>>
  /\ batch = [b \in 1..MaxBatches |-> NoBatch]
  /\ stderr = <<>>

Init == InitOver({InitialApp})

\* ----------------------------------------------------------------- start()
Step(s) == steps' = [steps EXCEPT ![s] = @ + 1]

\* start() up to its first await: the started guard, then fileExists is called.
StartCall_Unguarded(i) ==
  /\ call[i] = "idle"
  /\ \A j \in 1..(i - 1) : call[j] /= "idle"
  /\ started' = TRUE
  /\ call' = [call EXCEPT ![i] = "fileExists"]
  /\ UNCHANGED <<ready, app, contexts, outExists, store, watchers, initBuild,
                 steps, readyCalls, evRecv, batch, stderr>>

StartCall(i) ==
  /\ call[i] = "idle"
  /\ \A j \in 1..(i - 1) : call[j] /= "idle"
  /\ IF started
       THEN /\ call' = [call EXCEPT ![i] = "returned"]
            /\ UNCHANGED started
       ELSE /\ started' = TRUE
            /\ call' = [call EXCEPT ![i] = "fileExists"]
  /\ UNCHANGED <<ready, app, contexts, outExists, store, watchers, initBuild,
                 steps, readyCalls, evRecv, batch, stderr>>

\* await fileExists(buildOutputPath) answers; rmdir or mkdir is called.
FileExistsDone(i) ==
  /\ call[i] = "fileExists"
  /\ call' = [call EXCEPT ![i] = IF outExists THEN "rmdir" ELSE "mkdir"]
  /\ Step("fileExists")
  /\ UNCHANGED <<started, ready, app, contexts, outExists, store, watchers,
                 initBuild, readyCalls, evRecv, batch, stderr>>

\* await rmdir(buildOutputPath, {force: true}) answers; mkdir is called.
RmdirDone(i, ok) ==
  /\ call[i] = "rmdir"
  /\ IF ok
       THEN /\ outExists' = FALSE
            /\ store' = {}
            /\ Step("rmdir")
            /\ call' = [call EXCEPT ![i] = "mkdir"]
       ELSE /\ call' = [call EXCEPT ![i] = "threw"]
            /\ UNCHANGED <<outExists, store, steps>>
  /\ UNCHANGED <<started, ready, app, contexts, watchers, initBuild,
                 readyCalls, evRecv, batch, stderr>>

\* await mkdir(buildOutputPath) answers; createContexts is called.
MkdirDone_Swallow(i, ok) ==
  /\ call[i] = "mkdir"
  /\ IF ok
       THEN /\ outExists' = TRUE
            /\ Step("mkdir")
       ELSE UNCHANGED <<outExists, steps>>
  /\ call' = [call EXCEPT ![i] = "createContexts"]
  /\ UNCHANGED <<started, ready, app, contexts, store, watchers, initBuild,
                 readyCalls, evRecv, batch, stderr>>

MkdirDone(i, ok) ==
  /\ call[i] = "mkdir"
  /\ IF ok
       THEN /\ outExists' = TRUE
            /\ Step("mkdir")
            /\ call' = [call EXCEPT ![i] = "createContexts"]
       ELSE /\ call' = [call EXCEPT ![i] = "threw"]
            /\ UNCHANGED <<outExists, steps>>
  /\ UNCHANGED <<started, ready, app, contexts, store, watchers, initBuild,
                 readyCalls, evRecv, batch, stderr>>

\* esbuildManager.createContexts(extensions): a context per given extension.
CreateContexts(ctxs, exts) == ctxs \cup Range(exts)

\* await createContexts(...) answers; buildExtensions(app.realExtensions) is
\* called and runs up to its await of Promise.all.
CreateContextsDone(i, ok) ==
  /\ call[i] = "createContexts"
  /\ IF ok
       THEN /\ contexts' = CreateContexts(contexts, SelectSeq(RealExtensions(app), IsESBuildExtension))
            /\ initBuild' = [initBuild EXCEPT ![i] = BuildExtensionsStart(RealExtensions(app), contexts')]
            /\ steps' = [steps EXCEPT !["createContexts"] = @ + 1, !["buildExtensions"] = @ + 1]
            /\ call' = [call EXCEPT ![i] = "buildExtensions"]
       ELSE /\ call' = [call EXCEPT ![i] = "threw"]
            /\ UNCHANGED <<contexts, initBuild, steps>>
  /\ UNCHANGED <<started, ready, app, outExists, store, watchers,
                 readyCalls, evRecv, batch, stderr>>

\* One extension's build of the initial build answers.
InitBuildTaskDone(i, k, outcome) ==
  /\ call[i] = "buildExtensions"
  /\ k \in 1..Len(initBuild[i].exts)
  /\ initBuild[i].promise[k].state = "pending"
  /\ outcome \in OutcomesOf(initBuild[i], k)
  /\ initBuild' = [initBuild EXCEPT ![i] = BuildTaskDone(@, k, outcome)]
  /\ store' = StoreAfterBuild(store, initBuild[i].exts[k], outcome)
  /\ UNCHANGED <<started, ready, app, contexts, outExists, watchers, call,
                 steps, readyCalls, evRecv, batch, stderr>>

\* await this.buildExtensions(...) settles; startFileWatcher is called.
InitBuildSettled_NoAwait(i) ==
  /\ call[i] = "buildExtensions"
  /\ call' = [call EXCEPT ![i] = "startFileWatcher"]
  /\ UNCHANGED <<started, ready, app, contexts, outExists, store, watchers,
                 initBuild, steps, readyCalls, evRecv, batch, stderr>>

InitBuildSettled_FailFast(i) ==
  /\ call[i] = "buildExtensions"
  /\ PromiseAll(initBuild[i].promise) /= "pending"
  /\ call' = [call EXCEPT ![i] =
       IF \A k \in 1..Len(initBuild[i].promise) : initBuild[i].promise[k].value.status = "ok"
         THEN "startFileWatcher" ELSE "threw"]
  /\ UNCHANGED <<started, ready, app, contexts, outExists, store, watchers,
                 initBuild, steps, readyCalls, evRecv, batch, stderr>>

InitBuildSettled(i) ==
  /\ call[i] = "buildExtensions"
  /\ PromiseAll(initBuild[i].promise) /= "pending"
  /\ call' = [call EXCEPT ![i] = IF PromiseAll(initBuild[i].promise) = "fulfilled"
                                   THEN "startFileWatcher" ELSE "threw"]
  /\ UNCHANGED <<started, ready, app, contexts, outExists, store, watchers,
                 initBuild, steps, readyCalls, evRecv, batch, stderr>>

\* startFileWatcher registers the batch handler (or throws).
StartFileWatcherDone_ResetStarted(i, ok) ==
  /\ call[i] = "startFileWatcher"
  /\ IF ok
       THEN /\ watchers' = watchers + 1
            /\ Step("startFileWatcher")
            /\ call' = [call EXCEPT ![i] = "subscribed"]
            /\ UNCHANGED started
       ELSE /\ call' = [call EXCEPT ![i] = "threw"]
            /\ started' = FALSE
            /\ UNCHANGED <<watchers, steps>>
  /\ UNCHANGED <<ready, app, contexts, outExists, store, initBuild,
                 readyCalls, evRecv, batch, stderr>>

StartFileWatcherDone(i, ok) ==
  /\ call[i] = "startFileWatcher"
  /\ IF ok
       THEN /\ watchers' = watchers + 1
            /\ Step("startFileWatcher")
            /\ call' = [call EXCEPT ![i] = "subscribed"]
       ELSE /\ call' = [call EXCEPT ![i] = "threw"]
            /\ UNCHANGED <<watchers, steps>>
  /\ UNCHANGED <<started, ready, app, contexts, outExists, store, initBuild,
                 readyCalls, evRecv, batch, stderr>>

\* start() resumes after await startFileWatcher: ready = true; emit('ready').
SetReady(i) ==
  /\ call[i] = "subscribed"
  /\ ready' = TRUE
  /\ readyCalls' = EmitReady(readyCalls)
  /\ call' = [call EXCEPT ![i] = "done"]
  /\ UNCHANGED <<started, app, contexts, outExists, store, watchers, initBuild,
                 steps, evRecv, batch, stderr>>

\* ------------------------------------------------------ onStart / onEvent
\* onStart(listener): addListener('ready', listener), and emit('ready') when the
\* session is ready already. (max bounds the registrations of a run.)
OnStart_NoEmit(max) ==
  /\ Len(readyCalls) < max
  /\ readyCalls' = Append(readyCalls, 0)
  /\ UNCHANGED <<started, ready, app, contexts, outExists, store, watchers, call,
                 initBuild, steps, evRecv, batch, stderr>>

OnStart(max) ==
  /\ Len(readyCalls) < max
  /\ readyCalls' = IF ready THEN EmitReady(Append(readyCalls, 0))
                            ELSE Append(readyCalls, 0)
  /\ UNCHANGED <<started, ready, app, contexts, outExists, store, watchers, call,
                 initBuild, steps, evRecv, batch, stderr>>

\* onEvent(listener): addListener('all', listener).
OnEvent(max) ==
  /\ Len(evRecv) < max
  /\ evRecv' = Append(evRecv, <<>>)
  /\ UNCHANGED <<started, ready, app, contexts, outExists, store, watchers, call,
                 initBuild, steps, readyCalls, batch, stderr>>

\* ------------------------------------------------------ the batch handler
\* handleWatcherEvents(events, app, options): the reconciliation of what the
\* file watcher saw (the extensions now on disk, and those with a touched file)
\* against the application it is given.
ExtensionEventType(h, events, given) ==
  IF h \in events.disk /\ h \notin given THEN Created
  ELSE IF h \notin events.disk /\ h \in given THEN Deleted
  ELSE IF h \in events.touched /\ h \in events.disk THEN Updated
  ELSE "none"

HandleWatcherEvents(b, events, given) ==
  LET all == [i \in 1..Len(HandleOrder) |->
                [type |-> ExtensionEventType(HandleOrder[i], events, given),
                 extension |-> HandleOrder[i]]]
  IN [id |-> b, app |-> events.disk,
      extensionEvents |-> SelectSeq(all, LAMBDA e : e.type /= "none")]

\* What the file watcher can report in one delivery.
WatcherEvents == {[disk |-> d, touched |-> t] : d \in SUBSET Handles, t \in SUBSET Handles}

\* esbuildManager.updateContexts(appEvent): the contexts of the new snapshot.
UpdateContexts(ctxs, appEvent) == {h \in appEvent.app : IsESBuildExtension(h)}

\* extensionEvents.filter(type !== Deleted).map(extension)
CreatedOrUpdatedExtensions_All(extensionEvents) ==
  [k \in 1..Len(extensionEvents) |-> extensionEvents[k].extension]

CreatedOrUpdatedExtensions(extensionEvents) ==
  LET kept == SelectSeq(extensionEvents, LAMBDA e : e.type /= Deleted)
  IN [k \in 1..Len(kept) |-> kept[k].extension]

\* extensionEvents.filter(type === Deleted).map(extension)
DeletedExtensions(extensionEvents) ==
  LET kept == SelectSeq(extensionEvents, LAMBDA e : e.type = Deleted)
  IN [k \in 1..Len(kept) |-> kept[k].extension]

\* stderr.write(`Error handling event: ${error.message}`), in the handler's catch.
StderrWrite_Silent(log, b, message) == log

StderrWrite(log, b, message) ==
  Append(log, [batch |-> b, text |-> "Error handling event: " \o message])

\* The file watcher calls the registered handler with its events: the handler
\* calls handleWatcherEvents with the application held now, and returns.
Deliver(b, events) ==
  /\ watchers > 0
  /\ batch[b].stage = "none"
  /\ \A c \in 1..(b - 1) : batch[c].stage /= "none"
  /\ events \in WatcherEvents
  /\ events.touched \subseteq events.disk
  /\ batch' = [batch EXCEPT ![b] = [NoBatch EXCEPT !.stage = "handleWatcherEvents",
                                                   !.events = events,
                                                   !.oldApp = app]]
  /\ UNCHANGED <<started, ready, app, contexts, outExists, store, watchers, call,
                 initBuild, steps, readyCalls, evRecv, stderr>>

\* handleWatcherEvents settles: rejected (catch), no AppEvent (return), or an
\* AppEvent: the held application is replaced (the batch records the one it
\* replaced), and unless the AppEvent carries no extension event, updateContexts
\* is called.
HandleWatcherEventsDone_NoShortCircuit(b, outcome) ==
  /\ batch[b].stage = "handleWatcherEvents"
  /\ outcome \in {"appEvent", "undefined", "throw"}
  /\ IF outcome = "throw"
       THEN /\ \E m \in ThrownMessages : stderr' = StderrWrite(stderr, b, m)
            /\ batch' = [batch EXCEPT ![b].stage = "failed"]
            /\ UNCHANGED app
       ELSE IF outcome = "undefined"
       THEN /\ batch' = [batch EXCEPT ![b].stage = "returned"]
            /\ UNCHANGED <<app, stderr>>
       ELSE LET appEvent == HandleWatcherEvents(b, batch[b].events, batch[b].oldApp)
            IN /\ app' = appEvent.app
               /\ batch' = [batch EXCEPT ![b].appEvent = appEvent,
                                         ![b].replaced = app,
                                         ![b].stage = "updateContexts"]
               /\ UNCHANGED stderr
  /\ UNCHANGED <<started, ready, contexts, outExists, store, watchers, call,
                 initBuild, steps, readyCalls, evRecv>>

HandleWatcherEventsDone(b, outcome) ==
  /\ batch[b].stage = "handleWatcherEvents"
  /\ outcome \in {"appEvent", "undefined", "throw"}
  /\ IF outcome = "throw"
       THEN /\ \E m \in ThrownMessages : stderr' = StderrWrite(stderr, b, m)
            /\ batch' = [batch EXCEPT ![b].stage = "failed"]
            /\ UNCHANGED app
       ELSE IF outcome = "undefined"
       THEN /\ batch' = [batch EXCEPT ![b].stage = "returned"]
            /\ UNCHANGED <<app, stderr>>
       ELSE LET appEvent == HandleWatcherEvents(b, batch[b].events, batch[b].oldApp)
            IN /\ app' = appEvent.app
               /\ batch' = [batch EXCEPT ![b].appEvent = appEvent,
                                         ![b].replaced = app,
                                         ![b].stage = IF Len(appEvent.extensionEvents) = 0
                                                        THEN "skipped" ELSE "updateContexts"]
               /\ UNCHANGED stderr
  /\ UNCHANGED <<started, ready, contexts, outExists, store, watchers, call,
                 initBuild, steps, readyCalls, evRecv>>

\* await updateContexts(appEvent) settles; the created/updated extensions are
\* selected and buildExtensions is called with them.
UpdateContextsDone_BuildOnOldContexts(b, ok) ==
  /\ batch[b].stage = "updateContexts"
  /\ IF ok
       THEN /\ contexts' = UpdateContexts(contexts, batch[b].appEvent)
            /\ batch' = [batch EXCEPT
                 ![b].build = BuildExtensionsStart(
                                CreatedOrUpdatedExtensions(batch[b].appEvent.extensionEvents),
                                contexts),
                 ![b].stage = "buildExtensions"]
            /\ UNCHANGED stderr
       ELSE /\ \E m \in ThrownMessages : stderr' = StderrWrite(stderr, b, m)
            /\ batch' = [batch EXCEPT ![b].stage = "failed"]
            /\ UNCHANGED contexts
  /\ UNCHANGED <<started, ready, app, outExists, store, watchers, call,
                 initBuild, steps, readyCalls, evRecv>>

UpdateContextsDone(b, ok) ==
  /\ batch[b].stage = "updateContexts"
  /\ IF ok
       THEN /\ contexts' = UpdateContexts(contexts, batch[b].appEvent)
            /\ batch' = [batch EXCEPT
                 ![b].build = BuildExtensionsStart(
                                CreatedOrUpdatedExtensions(batch[b].appEvent.extensionEvents),
                                contexts'),
                 ![b].stage = "buildExtensions"]
            /\ UNCHANGED stderr
       ELSE /\ \E m \in ThrownMessages : stderr' = StderrWrite(stderr, b, m)
            /\ batch' = [batch EXCEPT ![b].stage = "failed"]
            /\ UNCHANGED contexts
  /\ UNCHANGED <<started, ready, app, outExists, store, watchers, call,
                 initBuild, steps, readyCalls, evRecv>>

\* One extension's build of a batch answers.
BatchBuildTaskDone(b, k, outcome) ==
  /\ batch[b].stage = "buildExtensions"
  /\ k \in 1..Len(batch[b].build.exts)
  /\ batch[b].build.promise[k].state = "pending"
  /\ outcome \in OutcomesOf(batch[b].build, k)
  /\ batch' = [batch EXCEPT ![b].build = BuildTaskDone(@, k, outcome)]
  /\ store' = StoreAfterBuild(store, batch[b].build.exts[k], outcome)
  /\ UNCHANGED <<started, ready, app, contexts, outExists, watchers, call,
                 initBuild, steps, readyCalls, evRecv, stderr>>

\* await this.buildExtensions(createdOrUpdatedExtensions) settles; the deleted
\* extensions are selected and deleteExtensionsBuildOutput starts one rmdir each.
BatchBuildSettled_FailFast(b) ==
  /\ batch[b].stage = "buildExtensions"
  /\ PromiseAll(batch[b].build.promise) /= "pending"
  /\ IF \A k \in 1..Len(batch[b].build.promise) : batch[b].build.promise[k].value.status = "ok"
       THEN LET deleted == DeletedExtensions(batch[b].appEvent.extensionEvents)
            IN /\ batch' = [batch EXCEPT
                    ![b].purge = [exts |-> deleted,
                                  promise |-> [k \in 1..Len(deleted) |-> Pending]],
                    ![b].stage = "deleteExtensionsBuildOutput"]
               /\ UNCHANGED stderr
       ELSE /\ \E m \in ThrownMessages : stderr' = StderrWrite(stderr, b, m)
            /\ batch' = [batch EXCEPT ![b].stage = "failed"]
  /\ UNCHANGED <<started, ready, app, contexts, outExists, store, watchers, call,
                 initBuild, steps, readyCalls, evRecv>>

BatchBuildSettled(b) ==
  /\ batch[b].stage = "buildExtensions"
  /\ PromiseAll(batch[b].build.promise) /= "pending"
  /\ IF PromiseAll(batch[b].build.promise) = "fulfilled"
       THEN LET deleted == DeletedExtensions(batch[b].appEvent.extensionEvents)
            IN /\ batch' = [batch EXCEPT
                    ![b].purge = [exts |-> deleted,
                                  promise |-> [k \in 1..Len(deleted) |-> Pending]],
                    ![b].stage = "deleteExtensionsBuildOutput"]
               /\ UNCHANGED stderr
       ELSE /\ stderr' = StderrWrite(stderr, b, FirstReason(batch[b].build.promise))
            /\ batch' = [batch EXCEPT ![b].stage = "failed"]
  /\ UNCHANGED <<started, ready, app, contexts, outExists, store, watchers, call,
                 initBuild, steps, readyCalls, evRecv>>

\* One rmdir(outputPath, {force: true}) of deleteExtensionsBuildOutput answers.
RmdirOutputDone(b, k, ok) ==
  /\ batch[b].stage \in {"deleteExtensionsBuildOutput", "failed"}
  /\ k \in 1..Len(batch[b].purge.exts)
  /\ batch[b].purge.promise[k].state = "pending"
  /\ IF ok
       THEN /\ store' = store \ {batch[b].purge.exts[k]}
            /\ batch' = [batch EXCEPT ![b].purge.promise[k] = Fulfilled(batch[b].purge.exts[k])]
       ELSE /\ \E m \in ThrownMessages :
                 batch' = [batch EXCEPT ![b].purge.promise[k] = Rejected(m)]
            /\ UNCHANGED store
  /\ UNCHANGED <<started, ready, app, contexts, outExists, watchers, call,
                 initBuild, steps, readyCalls, evRecv, stderr>>

\* await this.deleteExtensionsBuildOutput(deletedExtensions) settles:
\* emit('all', appEvent), or the handler's catch.
DeleteSettled_NoAwait(b) ==
  /\ batch[b].stage = "deleteExtensionsBuildOutput"
  /\ evRecv' = EmitAll(evRecv, batch[b].appEvent)
  /\ batch' = [batch EXCEPT ![b].stage = "done"]
  /\ UNCHANGED <<started, ready, app, contexts, outExists, store, watchers, call,
                 initBuild, steps, readyCalls, stderr>>

DeleteSettled(b) ==
  /\ batch[b].stage = "deleteExtensionsBuildOutput"
  /\ PromiseAll(batch[b].purge.promise) /= "pending"
  /\ IF PromiseAll(batch[b].purge.promise) = "fulfilled"
       THEN /\ evRecv' = EmitAll(evRecv, batch[b].appEvent)
            /\ batch' = [batch EXCEPT ![b].stage = "done"]
            /\ UNCHANGED stderr
       ELSE /\ stderr' = StderrWrite(stderr, b, FirstReason(batch[b].purge.promise))
            /\ batch' = [batch EXCEPT ![b].stage = "failed"]
            /\ UNCHANGED evRecv
  /\ UNCHANGED <<started, ready, app, contexts, outExists, store, watchers, call,
                 initBuild, steps, readyCalls>>

\* ------------------------------------------------------------------ Next
\* The answers of the build backends the session specifications draw from: a
\* rebuild without or with one error, a buildForBundle that resolves or throws.
SessionOutcomes ==
  {o \in RebuildOutcomes : Len(o.errors) <= 1 /\ Range(o.errors) \subseteq {"e1"}}
    \cup BundleOutcomes
SuccessOutcomes == {o \in SessionOutcomes : OutcomeOk(o)}

\* The deliveries of the file watcher the session specifications draw from:
\* b.toml and c.toml swapped while a file of a is touched; b restored and c
\* removed, with no file touched; a (and c) removed.
SessionEvents ==
  {[disk |-> {"a", "c"}, touched |-> {"a"}],
   [disk |-> {"a", "b"}, touched |-> {}],
   [disk |-> {"b"}, touched |-> {}]}

\* The steps of the session, over the given start() calls, results of the
\* file-system and registry calls of start(), build answers (initial build,
\* batches), deliveries, batches, reconciliation results and listener counts.
NextOver(Starts, Oks, InitOutcomes, Outcomes, Events, Batches, Results, StartListeners, EventListeners) ==
  \/ \E i \in Starts : StartCall(i)
  \/ \E i \in Starts : FileExistsDone(i)
  \/ \E i \in Starts, ok \in Oks : RmdirDone(i, ok)
  \/ \E i \in Starts, ok \in Oks : MkdirDone(i, ok)
  \/ \E i \in Starts, ok \in Oks : CreateContextsDone(i, ok)
  \/ \E i \in Starts, k \in 1..Len(HandleOrder), outcome \in InitOutcomes :
       InitBuildTaskDone(i, k, outcome)
  \/ \E i \in Starts : InitBuildSettled(i)
  \/ \E i \in Starts, ok \in Oks : StartFileWatcherDone(i, ok)
  \/ \E i \in Starts : SetReady(i)
  \/ \E max \in StartListeners : OnStart(max)
  \/ \E max \in EventListeners : OnEvent(max)
  \/ \E b \in Batches, events \in Events : Deliver(b, events)
  \/ \E b \in Batches, outcome \in Results : HandleWatcherEventsDone(b, outcome)
  \/ \E b \in Batches, ok \in BOOLEAN : UpdateContextsDone(b, ok)
  \/ \E b \in Batches, k \in 1..Len(HandleOrder), outcome \in Outcomes :
       BatchBuildTaskDone(b, k, outcome)
  \/ \E b \in Batches : BatchBuildSettled(b)
  \/ \E b \in Batches, k \in 1..Len(HandleOrder), ok \in BOOLEAN : RmdirOutputDone(b, k, ok)
  \/ \E b \in Batches : DeleteSettled(b)

\* The session: one start() whose steps succeed, then the batches.
Next ==
  NextOver({1}, {TRUE}, SuccessOutcomes, SessionOutcomes, SessionEvents,
           1..MaxBatches, {"appEvent", "undefined", "throw"}, {}, {MaxEventListeners})

Spec == Init /\ [][Next]_vars

\* start() and onStart: any number of start() calls, every step of which may
\* fail, and the onStart registrations around them.
NextStart ==
  NextOver(1..MaxStarts, BOOLEAN, SessionOutcomes, {}, {}, {}, {}, {MaxStartListeners}, {})

SpecStart == Init /\ [][NextStart]_vars

\* buildExtensions on its own: the session of any application, whose backends
\* give every answer, the rebuilds up to MaxErrs errors.
NextBuild ==
  NextOver({1}, {TRUE}, RebuildOutcomes \cup BundleOutcomes, RebuildOutcomes \cup BundleOutcomes,
           SessionEvents, {1}, {"appEvent"}, {}, {})

SpecBuild == InitOver(SUBSET Handles) /\ [][NextBuild]_vars

\* The session whose calls all answer and whose handler does not fail: one
\* start() whose directory and registry calls and initial builds succeed and
\* whose startFileWatcher may throw, and batches whose builds may fail and
\* whose handleWatcherEvents, updateContexts and rmdir calls succeed.
NextLive ==
  \/ StartCall(1)
  \/ FileExistsDone(1)
  \/ RmdirDone(1, TRUE)
  \/ MkdirDone(1, TRUE)
  \/ CreateContextsDone(1, TRUE)
  \/ \E k \in 1..Len(HandleOrder), outcome \in SuccessOutcomes : InitBuildTaskDone(1, k, outcome)
  \/ InitBuildSettled(1)
  \/ \E ok \in BOOLEAN : StartFileWatcherDone(1, ok)
  \/ SetReady(1)
  \/ OnEvent(MaxEventListeners)
  \/ \E b \in 1..MaxBatches, events \in SessionEvents : Deliver(b, events)
  \/ \E b \in 1..MaxBatches : HandleWatcherEventsDone(b, "appEvent")
  \/ \E b \in 1..MaxBatches : UpdateContextsDone(b, TRUE)
  \/ \E b \in 1..MaxBatches, k \in 1..Len(HandleOrder), outcome \in SessionOutcomes :
       BatchBuildTaskDone(b, k, outcome)
  \/ \E b \in 1..MaxBatches : BatchBuildSettled(b)
  \/ \E b \in 1..MaxBatches, k \in 1..Len(HandleOrder) : RmdirOutputDone(b, k, TRUE)
  \/ \E b \in 1..MaxBatches : DeleteSettled(b)

\* Every awaited call answers, and the continuation of an answered await runs
\* (the event loop runs every queued continuation); nothing is required of the
\* callers of start() and onEvent or of the file watcher's deliveries.
Fairness ==
  /\ WF_vars(FileExistsDone(1))
  /\ WF_vars(RmdirDone(1, TRUE))
  /\ WF_vars(MkdirDone(1, TRUE))
  /\ WF_vars(CreateContextsDone(1, TRUE))
  /\ WF_vars(\E k \in 1..Len(HandleOrder), outcome \in SuccessOutcomes :
               InitBuildTaskDone(1, k, outcome))
  /\ WF_vars(InitBuildSettled(1))
  /\ WF_vars(\E ok \in BOOLEAN : StartFileWatcherDone(1, ok))
  /\ WF_vars(SetReady(1))
  /\ \A b \in 1..MaxBatches :
       /\ WF_vars(HandleWatcherEventsDone(b, "appEvent"))
       /\ WF_vars(UpdateContextsDone(b, TRUE))
       /\ WF_vars(\E k \in 1..Len(HandleOrder), outcome \in SessionOutcomes :
                    BatchBuildTaskDone(b, k, outcome))
       /\ WF_vars(BatchBuildSettled(b))
       /\ WF_vars(\E k \in 1..Len(HandleOrder) : RmdirOutputDone(b, k, TRUE))
       /\ WF_vars(DeleteSettled(b))

SpecLive == Init /\ [][NextLive]_vars /\ Fairness

\* ================================================================ claims
\* The start() calls that went past the started guard.
Performing == {i \in 1..MaxStarts : call[i] \notin {"idle", "returned"}}

\* The initial build of the i-th start() has built every extension of the
\* application and every one of its builds has settled.
InitialBuildComplete(i) ==
  /\ initBuild[i].exts = RealExtensions(InitialApp)
  /\ \A k \in 1..Len(initBuild[i].exts) : initBuild[i].promise[k].state = "fulfilled"

\* C1: however many start() calls are issued, one after the other or while an
\* earlier one is suspended at an await, each step of the start sequence
\* (fileExists/rmdir, mkdir, createContexts, the initial buildExtensions,
\* startFileWatcher) is performed at most once, by one call only, and exactly
\* once by the time that call has completed.
C1_StartSequenceOnce ==
  /\ \A s \in StepNames : steps[s] <= 1
  /\ Cardinality(Performing) <= 1
  /\ \A i \in 1..MaxStarts :
       call[i] = "done" =>
         /\ \A s \in StepNames \ {"rmdir"} : steps[s] = 1
         /\ InitialBuildComplete(i)
         /\ watchers = 1

\* C1 witness: a second start() returned at the guard, the first ran the whole
\* sequence, the removal of a leftover output directory included.
C1_Witness ==
  /\ call[1] = "done"
  /\ call[2] = "returned"
  /\ \A s \in StepNames : steps[s] = 1

\* C2 (as claimed): every onStart registration is invoked at most once, and
\* exactly once as soon as the session is ready.
C2_EveryListenerExactlyOnce ==
  \A k \in 1..Len(readyCalls) :
    /\ readyCalls[k] <= 1
    /\ ready => readyCalls[k] = 1

\* C3: a listener registered with onStart when the session is ready is invoked
\* within that registration call.
C3_LateListenerInvoked ==
  [][(ready /\ Len(readyCalls') = Len(readyCalls) + 1)
       => readyCalls'[Len(readyCalls')] = 1]_vars

\* C3 witness: the last registration was made after the first one had received
\* the readiness notification of start(), and it has been invoked.
C3_Witness ==
  /\ ready
  /\ Len(readyCalls) = 2
  /\ readyCalls[1] = 2
  /\ readyCalls[2] = 1

\* C4: ready implies started; started and ready never go back to false; ready
\* is set only in a started session, and only once the initial build of every
\* extension has settled and the batch handler is registered with the watcher.
C4_SessionStateMonotonic ==
  /\ [](ready => started)
  /\ [](ready => \E i \in 1..MaxStarts : InitialBuildComplete(i) /\ watchers >= 1)
  /\ [][(started => started') /\ (ready => ready') /\ (ready' => started)]_vars

\* C4 witness: a ready session, whose initial build had a failing extension.
C4_Witness ==
  /\ ready
  /\ started
  /\ watchers = 1
  /\ InitialBuildComplete(1)
  /\ \E k \in 1..Len(initBuild[1].exts) : initBuild[1].promise[k].value.status = "error"

\* ------------------------------------------------- claims about batches
\* The batches whose reconciliation produced an AppEvent.
Reconciled == {b \in 1..MaxBatches : batch[b].appEvent.id = b}
NonEmpty == {b \in Reconciled : Len(batch[b].appEvent.extensionEvents) > 0}

ExtensionsOfType(b, types) ==
  {e.extension : e \in {x \in Range(batch[b].appEvent.extensionEvents) : x.type \in types}}

\* How many times the k-th onEvent listener was given the AppEvent of batch b.
Received(k, b) == Cardinality({n \in 1..Len(evRecv[k]) : evRecv[k][n].id = b})

BuildsSettled(b) ==
  \A k \in 1..Len(batch[b].build.promise) : batch[b].build.promise[k].state /= "pending"
PurgesDone(b) ==
  \A k \in 1..Len(batch[b].purge.promise) : batch[b].purge.promise[k].state = "fulfilled"

\* C5: a batch whose AppEvent carries no extension event stops there: no
\* 'all' listener is given it, no build and no rmdir is started for it, and it
\* never reaches updateContexts.
C5_EmptyBatchDoesNothing ==
  \A b \in Reconciled \ NonEmpty :
    /\ batch[b].stage = "skipped"
    /\ batch[b].build = NoJob
    /\ batch[b].purge.exts = <<>>
    /\ \A k \in 1..Len(evRecv) : Received(k, b) = 0

\* C5 witness: an empty batch was handled while a listener was registered and
\* output was in the store.
C5_Witness ==
  \E b \in Reconciled \ NonEmpty :
    /\ batch[b].stage = "skipped"
    /\ Len(evRecv) >= 1
    /\ store /= {}

\* C6: the handler of a non-empty batch never builds an extension that is not
\* in a Created or Updated event, and never removes the output of one that is
\* not in a Deleted event; its buildExtensions call is given exactly the
\* extensions of the Created and Updated events, its deleteExtensionsBuildOutput
\* call exactly those of the Deleted events, and when it is done exactly these
\* were built and removed. An extension of a Deleted event is never built.
C6_BuiltAndPurgedSets ==
  \A b \in NonEmpty :
    LET built == Range(batch[b].build.exts)
        purged == Range(batch[b].purge.exts)
        affected == ExtensionsOfType(b, {Created, Updated})
        removed == ExtensionsOfType(b, {Deleted})
    IN /\ built \subseteq affected
       /\ purged \subseteq removed
       /\ built \cap removed = {}
       /\ batch[b].stage \in {"buildExtensions", "deleteExtensionsBuildOutput", "done"}
            => built = affected
       /\ batch[b].stage \in {"deleteExtensionsBuildOutput", "done"}
            => purged = removed
       /\ batch[b].stage = "done" => BuildsSettled(b) /\ PurgesDone(b)

\* C6 witness: a batch with a Created, an Updated and a Deleted event is done.
C6_Witness ==
  \E b \in NonEmpty :
    /\ batch[b].stage = "done"
    /\ ExtensionsOfType(b, {Created}) /= {}
    /\ ExtensionsOfType(b, {Updated}) /= {}
    /\ ExtensionsOfType(b, {Deleted}) /= {}

\* C7: the step that ends the handler of a non-empty batch gives the batch's
\* AppEvent, with all its extension events, once to every listener registered
\* then; no other step gives a listener anything; and a listener holds a
\* batch's AppEvent only when every build of the batch has settled and every
\* removal has been done.
C7_NotifiedOnceAfterWork ==
  /\ [](\A b \in 1..MaxBatches : \A k \in 1..Len(evRecv) :
          /\ Received(k, b) <= 1
          /\ Received(k, b) = 1 =>
               /\ batch[b].stage = "done"
               /\ b \in NonEmpty
               /\ BuildsSettled(b)
               /\ PurgesDone(b)
               /\ \E n \in 1..Len(evRecv[k]) : evRecv[k][n] = batch[b].appEvent)
  /\ [][\A b \in 1..MaxBatches :
          IF batch[b].stage /= "done" /\ batch'[b].stage = "done"
            THEN /\ Len(evRecv') = Len(evRecv)
                 /\ \A k \in 1..Len(evRecv) : evRecv'[k] = Append(evRecv[k], batch[b].appEvent)
            ELSE \A k \in 1..Len(evRecv) : Received(k, b)' = Received(k, b)]_vars
  /\ [](\A b \in NonEmpty :
          (batch[b].stage = "deleteExtensionsBuildOutput" /\ PurgesDone(b))
            => ENABLED DeleteSettled(b))

\* C7 witness: two listeners have each been given the AppEvent of a batch that
\* built and removed something.
C7_Witness ==
  \E b \in NonEmpty :
    /\ batch[b].stage = "done"
    /\ Len(evRecv) = 2
    /\ Received(1, b) = 1 /\ Received(2, b) = 1
    /\ Len(batch[b].build.exts) >= 1
    /\ Len(batch[b].purge.exts) >= 1

\* The jobs buildExtensions has been called for.
Jobs == {initBuild[i] : i \in 1..MaxStarts} \cup {batch[b].build : b \in 1..MaxBatches}

\* The backend of the k-th extension of a job answered with a failure.
BuildFailed(job, k) ==
  \/ ~job.hasCtx[k] /\ job.outcome[k].kind = "throw"
  \/ job.hasCtx[k] /\ job.outcome[k].kind = "result" /\ Len(job.outcome[k].errors) >= 1

RECURSIVE Lines(_)
\* The texts, each on its own line.
Lines(texts) ==
  IF Len(texts) = 1 THEN texts[1]
  ELSE Lines(SubSeq(texts, 1, Len(texts) - 1)) \o "\n" \o texts[Len(texts)]

\* C8: a buildExtensions job never rejects and holds one promise per input
\* extension; once settled, the k-th holds the result of the k-th extension:
\* an error exactly when buildForBundle threw (with the thrown message) or the
\* rebuild reported errors (their texts, one per line), else ok; whatever the
\* other extensions' builds did.
C8_OneResultPerExtension ==
  \A job \in Jobs :
    /\ Len(job.promise) = Len(job.exts)
    /\ PromiseAll(job.promise) /= "rejected"
    /\ \A k \in 1..Len(job.exts) :
         job.promise[k].state /= "pending" =>
           /\ job.promise[k].state = "fulfilled"
           /\ job.promise[k].value.handle = job.exts[k]
           /\ job.promise[k].value.status = (IF BuildFailed(job, k) THEN "error" ELSE "ok")
           /\ BuildFailed(job, k) =>
                job.promise[k].value.error =
                  (IF job.hasCtx[k] THEN Lines(job.outcome[k].errors)
                                    ELSE job.outcome[k].message)
           /\ ~BuildFailed(job, k) =>
                job.promise[k].value = [status |-> "ok", handle |-> job.exts[k]]

\* C8 witness: one job in which a rebuild reported two errors, a buildForBundle
\* threw "boom" and a third extension was built.
C8_Witness ==
  \E job \in Jobs :
    /\ PromiseAll(job.promise) = "fulfilled"
    /\ BuildResults(job) = <<[status |-> "error", error |-> "e1\ne2", handle |-> "a"],
                             [status |-> "error", error |-> "boom", handle |-> "b"],
                             [status |-> "ok", handle |-> "c"]>>

\* The batches in which the build of some extension failed.
WithFailedBuild ==
  {b \in NonEmpty : \E k \in 1..Len(batch[b].build.exts) :
                       batch[b].build.promise[k].state /= "pending" /\ BuildFailed(batch[b].build, k)}

\* C9: in a batch with failed builds every created or updated extension is
\* still given to its backend; the failed builds never make the handler fail
\* (it fails only if a removal throws); once all builds have settled the
\* handler goes on to the removals, and once these are done it notifies: the
\* done batch has removed every deleted extension's output and every listener
\* registered at that time holds its AppEvent.
C9_FailedBuildsNotFatal ==
  /\ [](\A b \in WithFailedBuild :
          /\ Range(batch[b].build.exts) = ExtensionsOfType(b, {Created, Updated})
          /\ batch[b].stage \in {"buildExtensions", "deleteExtensionsBuildOutput", "done", "failed"}
          /\ batch[b].stage = "failed" =>
               \E k \in 1..Len(batch[b].purge.promise) : batch[b].purge.promise[k].state = "rejected"
          /\ (batch[b].stage = "buildExtensions" /\ BuildsSettled(b)) =>
               ENABLED BatchBuildSettled(b)
          /\ (batch[b].stage = "deleteExtensionsBuildOutput" /\ PurgesDone(b)) =>
               ENABLED DeleteSettled(b)
          /\ batch[b].stage = "done" =>
               /\ BuildsSettled(b)
               /\ Range(batch[b].purge.exts) = ExtensionsOfType(b, {Deleted})
               /\ PurgesDone(b))
  /\ [][\A b \in WithFailedBuild :
          /\ (batch[b].stage = "buildExtensions" /\ batch'[b].stage /= "buildExtensions")
               => batch'[b].stage = "deleteExtensionsBuildOutput"
          /\ (batch[b].stage = "deleteExtensionsBuildOutput" /\ batch'[b].stage = "done")
               => \A k \in 1..Len(evRecv) : Received(k, b)' = 1]_vars

\* C9 witness: a batch is done and notified in which one build failed, another
\* succeeded, and an output was removed.
C9_Witness ==
  \E b \in WithFailedBuild :
    /\ batch[b].stage = "done"
    /\ \E k \in 1..Len(batch[b].build.exts) : ~BuildFailed(batch[b].build, k)
    /\ Len(batch[b].purge.exts) >= 1
    /\ Len(evRecv) >= 1
    /\ \A k \in 1..Len(evRecv) : Received(k, b) = 1

\* C10: when the handler of a batch fails, one line "Error handling event: ..."
\* is written to stderr for it (and none for a batch that did not fail), no
\* listener is given that batch, the handler stays registered, and the next
\* delivery is accepted; the batches around it are handled as any other (a
\* batch that is done has its builds settled, its removals done and is
\* notified).
C10_HandlerFailureContained ==
  /\ \A n \in 1..Len(stderr) :
       /\ batch[stderr[n].batch].stage = "failed"
       /\ stderr[n].text \in {"Error handling event: " \o m : m \in ThrownMessages}
       /\ \A n2 \in 1..Len(stderr) : stderr[n2].batch = stderr[n].batch => n2 = n
  /\ \A b \in 1..MaxBatches :
       batch[b].stage = "failed" =>
         /\ \E n \in 1..Len(stderr) : stderr[n].batch = b
         /\ \A k \in 1..Len(evRecv) : Received(k, b) = 0
         /\ watchers >= 1
         /\ (b < MaxBatches /\ batch[b + 1].stage = "none") =>
              \A events \in SessionEvents : ENABLED Deliver(b + 1, events)
         /\ \A c \in NonEmpty \ {b} :
              /\ (batch[c].stage = "updateContexts" => ENABLED UpdateContextsDone(c, TRUE))
              /\ (batch[c].stage = "buildExtensions" /\ BuildsSettled(c))
                   => ENABLED BatchBuildSettled(c)
              /\ (batch[c].stage = "deleteExtensionsBuildOutput" /\ PurgesDone(c))
                   => ENABLED DeleteSettled(c)

\* C10 witness: the first batch failed in updateContexts or in a removal, and
\* the batch delivered after it was built, removed an output and was notified.
C10_Witness ==
  /\ batch[1].stage = "failed"
  /\ 1 \in NonEmpty
  /\ Len(stderr) = 1
  /\ batch[2].stage = "done"
  /\ Len(batch[2].build.exts) >= 1
  /\ Len(batch[2].purge.exts) >= 1
  /\ Len(evRecv) >= 1
  /\ \A k \in 1..Len(evRecv) : Received(k, 2) = 1 /\ Received(k, 1) = 0

\* ------------------------------------------------ claims about failures
\* Every extension of the initial build of the i-th start() has been answered.
InitBuildAnswered(i) ==
  \A k \in 1..Len(initBuild[i].promise) : initBuild[i].promise[k].state /= "pending"

\* Every extension of the initial build of the i-th start() failed to build.
InitBuildAllFailed(i) ==
  /\ initBuild[i].exts = RealExtensions(InitialApp)
  /\ \A k \in 1..Len(initBuild[i].exts) :
       /\ initBuild[i].promise[k].state = "fulfilled"
       /\ initBuild[i].promise[k].value.status = "error"

\* C11: failed builds of the initial build do not fail start(): whatever the
\* builds answered, the buildExtensions promise start() awaits is fulfilled,
\* start() leaves its await only towards startFileWatcher, and a start() that
\* throws has not reached the initial build or is past it: even when every
\* extension failed to build, start() subscribes and sets ready.
C11_InitialBuildFailuresNotFatal ==
  /\ [](\A i \in 1..MaxStarts :
          (call[i] = "buildExtensions" /\ InitBuildAnswered(i))
            => /\ PromiseAll(initBuild[i].promise) = "fulfilled"
               /\ ENABLED InitBuildSettled(i))
  /\ [][\A i \in 1..MaxStarts :
          (call[i] = "buildExtensions" /\ call'[i] /= call[i])
            => call'[i] = "startFileWatcher"]_vars
  /\ [][\A i \in 1..MaxStarts :
          (InitBuildAllFailed(i) /\ call[i] = "subscribed" /\ call'[i] /= call[i])
            => (ready' /\ call'[i] = "done" /\ readyCalls' = EmitReady(readyCalls))]_vars

\* C11 witness: every extension failed in the initial build, and start() has
\* subscribed, set ready and notified the registered listener.
C11_Witness ==
  /\ InitBuildAllFailed(1)
  /\ call[1] = "done"
  /\ ready
  /\ watchers = 1
  /\ Len(readyCalls) >= 1
  /\ readyCalls[1] = 1

\* The i-th start() was rejected by the rmdir or the mkdir of the output
\* directory: it threw, and no mkdir has succeeded.
DirectoryFailed(i) == call[i] = "threw" /\ steps["mkdir"] = 0

\* C12: a start() whose rmdir or mkdir of the output directory fails is
\* rejected with that error, and then the session has created no context,
\* started no initial build, registered no handler with the file watcher, is
\* not ready and has invoked no onStart listener.
C12_DirectoryFailurePropagates ==
  /\ [][\A i \in 1..MaxStarts :
          (/\ call[i] \in {"rmdir", "mkdir"}
           /\ call'[i] /= call[i]
           /\ steps'[call[i]] = steps[call[i]])
            => call'[i] = "threw"]_vars
  /\ [](\A i \in 1..MaxStarts :
          DirectoryFailed(i) =>
            /\ steps["createContexts"] = 0
            /\ steps["buildExtensions"] = 0
            /\ steps["startFileWatcher"] = 0
            /\ \A j \in 1..MaxStarts : initBuild[j] = NoJob
            /\ contexts = {}
            /\ watchers = 0
            /\ ~ready
            /\ \A k \in 1..Len(readyCalls) : readyCalls[k] = 0)

\* C12 witness: the leftover output directory was removed, mkdir then failed,
\* a later start() has returned, and a listener is registered with onStart.
C12_Witness ==
  /\ DirectoryFailed(1)
  /\ steps["rmdir"] = 1
  /\ call[2] = "returned"
  /\ Len(readyCalls) >= 1

\* ------------------------------------------- claims about batch ordering
\* The handler of batch b has been called and has not reached its end.
InProgress(b) ==
  batch[b].stage \in {"handleWatcherEvents", "updateContexts", "buildExtensions",
                      "deleteExtensionsBuildOutput"}

\* C13 (as claimed): two batches are never in progress at the same time: the
\* handler of a batch reaches its end before the handler of the next delivered
\* batch takes its first step.
C13_BatchesSerialized ==
  Cardinality({b \in 1..MaxBatches : InProgress(b)}) <= 1

\* No handler is in progress and no rmdir of a handler is still pending.
NoHandlerInProgress ==
  \A b \in 1..MaxBatches :
    /\ ~InProgress(b)
    /\ \A k \in 1..Len(batch[b].purge.promise) : batch[b].purge.promise[k].state /= "pending"

\* Every AppEvent carries a Deleted event for every extension that the
\* application it replaced had and its own application has not.
DeletedEventsComplete ==
  \A b \in Reconciled :
    (batch[b].replaced \ batch[b].appEvent.app) \subseteq ExtensionsOfType(b, {Deleted})

\* C14 (as claimed): in a ready session with no handler in progress, whose
\* AppEvents carried a Deleted event for every extension they dropped, the
\* output directory holds no output of an extension that is not in the held
\* application.
C14_StoreWithinSnapshot ==
  (ready /\ NoHandlerInProgress /\ DeletedEventsComplete) => store \subseteq app

\* C15 (as claimed): every onEvent listener is given the AppEvents in the
\* order in which the file watcher delivered their batches (batches are
\* numbered in delivery order).
C15_NotifiedInDeliveryOrder ==
  \A k \in 1..Len(evRecv) :
    \A n \in 1..Len(evRecv[k]), m \in 1..Len(evRecv[k]) :
      n < m => evRecv[k][n].id < evRecv[k][m].id

\* C16: in the handler of a non-empty batch no build is started while
\* updateContexts is awaited; the builds of the batch start in the step in
\* which updateContexts has answered and has set the contexts of the batch's
\* application, and every esbuild extension of the batch's Created and Updated
\* events, one whose context this updateContexts created included, is rebuilt
\* through its context (rebuild), never through buildForBundle.
C16_ContextsUpdatedBeforeBuild ==
  /\ [](\A b \in 1..MaxBatches :
          /\ batch[b].stage \in {"handleWatcherEvents", "updateContexts"}
               => batch[b].build = NoJob
          /\ \A k \in 1..Len(batch[b].build.exts) :
               /\ batch[b].build.hasCtx[k] = IsESBuildExtension(batch[b].build.exts[k])
               /\ batch[b].build.promise[k].state /= "pending"
                    => (batch[b].build.outcome[k].kind = "result")
                         = IsESBuildExtension(batch[b].build.exts[k]))
  /\ [][\A b \in 1..MaxBatches :
          batch'[b].stage = "buildExtensions" /\ batch[b].stage /= "buildExtensions"
            => /\ batch[b].stage = "updateContexts"
               /\ contexts' = UpdateContexts(contexts, batch[b].appEvent)
               /\ \A k \in 1..Len(batch'[b].build.exts) :
                    /\ batch'[b].build.promise[k].state = "pending"
                    /\ batch'[b].build.hasCtx[k] = (batch'[b].build.exts[k] \in contexts')]_vars

\* C16 witness: the session started without the esbuild extension a, so its
\* createContexts made no context for it; a batch created a, and a was rebuilt
\* through the context the batch's updateContexts made.
C16_Witness ==
  /\ "a" \notin Range(initBuild[1].exts)
  /\ call[1] = "done"
  /\ "a" \in ExtensionsOfType(1, {Created})
  /\ batch[1].stage = "done"
  /\ \E k \in 1..Len(batch[1].build.exts) :
       /\ batch[1].build.exts[k] = "a"
       /\ batch[1].build.hasCtx[k]
       /\ batch[1].build.outcome[k].kind = "result"
       /\ batch[1].build.promise[k].value.status = "ok"
  /\ "a" \in contexts

\* C17 (as claimed): the handler of a batch whose AppEvent carries no
\* extension event ends without replacing the held application: the session
\* holds after it the application it held before.
C17_EmptyBatchKeepsSnapshot ==
  [][\A b \in 1..MaxBatches :
       (batch[b].stage = "handleWatcherEvents" /\ batch'[b].stage = "skipped")
         => app' = app]_vars

\* ------------------------------------------------------ claims of progress
\* C18 (as claimed): every non-empty batch is eventually given to the onEvent
\* listeners, and a start() whose rmdir, mkdir and createContexts succeeded
\* eventually sets ready.
C18_NotifiedAndReadyEventually ==
  /\ \A b \in 1..MaxBatches :
       ((batch[b].stage = "updateContexts")
          ~> (batch[b].stage = "done" /\ \A k \in 1..Len(evRecv) : Received(k, b) = 1))
  /\ ((call[1] = "buildExtensions") ~> ready)

\* C18 (amended): every non-empty batch is eventually given to the onEvent
\* listeners, once each, and a start() whose rmdir, mkdir and createContexts
\* succeeded eventually sets ready, or is rejected by startFileWatcher with no
\* handler registered.
C18_NotifiedAndReadyUnlessNotSubscribed ==
  /\ \A b \in 1..MaxBatches :
       ((batch[b].stage = "updateContexts")
          ~> (batch[b].stage = "done" /\ \A k \in 1..Len(evRecv) : Received(k, b) = 1))
  /\ ((call[1] = "buildExtensions")
        ~> (ready \/ (call[1] = "threw" /\ InitBuildAnswered(1) /\ watchers = 0)))

\* C18 witness: start() has set ready, and both batches, one with a failed
\* build, have been given to a listener.
C18_Witness ==
  /\ ready
  /\ call[1] = "done"
  /\ Len(evRecv) >= 1
  /\ \A b \in 1..MaxBatches : batch[b].stage = "done" /\ Received(1, b) = 1
  /\ \E b \in 1..MaxBatches : \E k \in 1..Len(batch[b].build.promise) :
       batch[b].build.promise[k].value.status = "error"

\* ------------------------------------------------- claims about readiness
\* C19 (as claimed): no onEvent listener is given an AppEvent before the
\* session is ready: emit('all') of a batch never precedes ready = true and
\* emit('ready').
C19_NoEventBeforeReady ==
  \A k \in 1..Len(evRecv) : Len(evRecv[k]) > 0 => ready

\* C20: once a start() has thrown (at rmdir, mkdir, createContexts or
\* startFileWatcher), started stays true and ready false for good, no onStart
\* listener is ever invoked, no other start() has performed or performs a step
\* (each returns at the started guard), and nothing of the start sequence is
\* performed any more.
C20_FailedStartStaysStarting ==
  /\ [](\A i \in 1..MaxStarts :
          call[i] = "threw" =>
            /\ started
            /\ ~ready
            /\ \A k \in 1..Len(readyCalls) : readyCalls[k] = 0
            /\ \A j \in 1..MaxStarts \ {i} : call[j] \in {"idle", "returned"})
  /\ [][\A i \in 1..MaxStarts :
          call[i] = "threw" =>
            /\ call'[i] = "threw"
            /\ steps' = steps
            /\ <<contexts', initBuild', store', outExists', watchers'>>
                 = <<contexts, initBuild, store, outExists, watchers>>
            /\ \A j \in 1..MaxStarts :
                 call'[j] /= call[j] => (call[j] = "idle" /\ call'[j] = "returned")]_vars

\* C20 witness: the first start() threw at startFileWatcher, after the initial
\* build; a second start() has returned at the guard and a listener registered
\* with onStart has not been invoked.
C20_Witness ==
  /\ call[1] = "threw"
  /\ steps["buildExtensions"] = 1
  /\ InitBuildAnswered(1)
  /\ watchers = 0
  /\ call[2] = "returned"
  /\ started
  /\ ~ready
  /\ Len(readyCalls) >= 1

\* ------------------------------------------------ claims about the snapshot
\* The step in which the handler of batch b replaces the held application
\* with the application of its AppEvent.
Installs(b) ==
  batch[b].stage = "handleWatcherEvents" /\ batch'[b].appEvent.id = b

\* No batch delivered after b has replaced the held application yet.
NoLaterInstalled(b) ==
  \A c \in (b + 1)..MaxBatches : batch[c].appEvent.id /= c

\* Batch b was reconciled against the application installed by the batch
\* delivered just before it (which has ended without an AppEvent otherwise).
ReconciledAgainstPrevious(b) ==
  \/ b = 1
  \/ /\ b > 1
     /\ batch[b - 1].stage /= "handleWatcherEvents"
     /\ batch[b - 1].appEvent.id = b - 1 => batch[b].oldApp = batch[b - 1].appEvent.app

\* C21 (as claimed): the held application is never replaced by that of a
\* batch delivered before the batch whose application is held, and every
\* batch that replaces it was reconciled against the application installed by
\* the batch delivered just before it.
C21_SnapshotNeverReverts ==
  [][\A b \in 1..MaxBatches :
       Installs(b) => (NoLaterInstalled(b) /\ ReconciledAgainstPrevious(b))]_vars

====
